---- MODULE Spec2Model ----
(***************************************************************************)
(* Model of the spec-drift validators of the Claude Development Framework: *)
(*   scripts/lib/alignment.py      use cases <-> BDD feature files          *)
(*   scripts/lib/traceability.py   use cases <-> service specifications     *)
(*   scripts/check-alignment.py, scripts/validate-traceability.py  (main)   *)
(* The disk (three directories of documents) is the input; each command    *)
(* line tool is a small state machine: check directories, scan and parse,  *)
(* validate, exit.                                                         *)
(***************************************************************************)
EXTENDS Integers, Sequences, FiniteSets, TLC

(***************************************************************************)
(* Bounds of the explored inputs.                                          *)
(***************************************************************************)
\* largest number of list items in an "Acceptance Criteria" section
MaxCriteria == 1
\* largest number of Scenario lines in a feature file
MaxScenarios == 1
\* largest number of rows in a "Services Used" table
MaxRefs == 2
\* largest number of rows in a "Used By" table
MaxUsedBy == 1

(***************************************************************************)
(* The universe of file names.  A use-case file is specs/use-cases/<name>, *)
(* every name matches the glob "UC-*.md".  UcFileOrder is the names in     *)
(* sorted() order.                                                         *)
(***************************************************************************)
UcFileOrder == << "UC-1-a.md", "UC-1-b.md", "UC-2.md", "UC-x.md" >>

UcFileNames == { UcFileOrder[i] : i \in 1..Len(UcFileOrder) }

\* feature files found by rglob("*.feature"), in sorted order
FeatureFileOrder == << "Cart.feature", "uc-1-login.feature" >>

FeatureFileNames == { FeatureFileOrder[i] : i \in 1..Len(FeatureFileOrder) }

\* service directories services/<dir>/service-spec.md, in sorted order
ServiceDirOrder == << "SVC-1", "auth" >>

ServiceDirs == { ServiceDirOrder[i] : i \in 1..Len(ServiceDirOrder) }

(***************************************************************************)
(* String functions of the code, tabulated on the universe of names.       *)
(***************************************************************************)
\* re.match(r"(UC-\d+)", name): the matched prefix, "" when there is no match
UcIdMatch(name) ==
    CASE name = "UC-1-a.md" -> "UC-" \o "1"
      [] name = "UC-1-b.md" -> "UC-" \o "1"
      [] name = "UC-2.md"   -> "UC-" \o "2"
      [] OTHER              -> ""

\* Path(name).stem: the file name without its last suffix
Stem(name) ==
    CASE name = "UC-1-a.md" -> "UC-1-a"
      [] name = "UC-1-b.md" -> "UC-1-b"
      [] name = "UC-2.md"   -> "UC-2"
      [] name = "UC-x.md"   -> "UC-x"
      [] OTHER              -> name

\* re.search(r'(uc-\d+)', filename, re.IGNORECASE): matched text or ""
FilenameUcMatch(filename) ==
    CASE filename = "uc-1-login.feature" -> "uc-1"
      [] OTHER                            -> ""

\* str.upper() on the matched texts
Upper(s) ==
    CASE s = "uc-1" -> "UC-1"
      [] OTHER      -> s

\* str.strip() on the text matched after "Feature:"
Strip(s) ==
    CASE s = " " -> ""
      [] OTHER   -> s

\* Path(p).name.lower(): base name of a path, lower-cased
BaseNameLower(p) ==
    CASE p = "Cart.feature"           -> "cart.feature"
      [] p = "features/cart.feature"  -> "cart.feature"
      [] p = "uc-1-login.feature"     -> "uc-1-login.feature"
      [] OTHER                        -> p

(***************************************************************************)
(* Documents.  A slot of a directory holds no file, a file whose           *)
(* read_text() raises, or a text described by what the parsers extract.    *)
(***************************************************************************)
Absent == [kind |-> "absent"]

Unreadable == [kind |-> "unreadable"]

\* sequences over S of length 0..n
RECURSIVE SeqsUpTo(_, _)
SeqsUpTo(S, n) ==
    IF n = 0 THEN { <<>> }
    ELSE LET shorter == SeqsUpTo(S, n - 1)
         IN  shorter \cup { Append(s, x) : s \in { t \in shorter : Len(t) = n - 1 }, x \in S }

\* texts of a use-case document as the alignment parser sees them:
\* criteria = number of list items of the Acceptance Criteria section,
\* bddRef = the "BDD File:" path, "" when there is none
UcAlignTexts ==
    [ kind : {"text"}, criteria : 0..MaxCriteria,
      bddRef : {"", "features/cart.feature"},
      services : { <<>> }, justified : {FALSE} ]

\* names a row of a "Services Used" table can hold
ServiceRefs == {"SVC-1", "auth", "PaymentSvc"}

\* ids a row of a "Used By" table can hold
UcRefs == {"UC-1", "UC-2"}

\* texts of a use-case document as the traceability parser sees them:
\* services = cleaned first cells of the Services Used table,
\* justified = the text holds one of the justification phrases
UcTraceTexts ==
    [ kind : {"text"}, criteria : {0}, bddRef : {""},
      services : SeqsUpTo(ServiceRefs, MaxRefs), justified : BOOLEAN ]

\* texts of a feature file: featureLine = what (.+) matches on the first
\* "Feature:" line ("" when no line matches, " " when only white space
\* follows the colon), scenarios = number of Scenario lines,
\* commentRef = first UC-<digits> after a '#', "" when there is none
FeatureTexts ==
    [ kind : {"text"}, featureLine : {"Login", "Cart"},
      scenarios : 0..MaxScenarios, commentRef : {"", "UC-2"} ]
    \cup
    [ kind : {"text"}, featureLine : {"", " "}, scenarios : {0}, commentRef : {""} ]

\* texts of a service-spec.md: declaredId = the "Service ID:" value ("" when
\* there is none), usedBy = UC ids of the Used By table
ServiceTexts ==
    [ kind : {"text"}, declaredId : {"", "SVC-1"},
      usedBy : SeqsUpTo(UcRefs, MaxUsedBy) ]

VARIABLES
    ucDirExists,    \* specs/use-cases exists
    bddDirExists,   \* tests/bdd exists
    svcDirExists,   \* services exists
    ucFiles,        \* name -> document, the content of specs/use-cases
    featureFiles,   \* name -> document, the content of tests/bdd
    serviceFiles,   \* dir -> document, services/<dir>/service-spec.md
    globReversed,   \* directory listing order: sorted, or the reverse
    a_pc,           \* check-alignment.py: position in main
    use_cases,      \* check-alignment.py: dict uc_id -> UseCase
    bdd_features,   \* check-alignment.py: dict feature_name -> BDDFeature
    issues,         \* check-alignment.py: list returned by validate
    a_exit,         \* check-alignment.py: process exit code, -1 while running
    t_pc,           \* validate-traceability.py: position in main
    t_use_cases,    \* validate-traceability.py: list of UseCase
    t_services,     \* validate-traceability.py: list of Service
    t_issues,       \* validate-traceability.py: dict returned by validate
    t_exit          \* validate-traceability.py: process exit code

diskVars == << ucDirExists, bddDirExists, svcDirExists, ucFiles, featureFiles,
               serviceFiles, globReversed >>

alignVars == << a_pc, use_cases, bdd_features, issues, a_exit >>

traceVars == << t_pc, t_use_cases, t_services, t_issues, t_exit >>

vars == << diskVars, alignVars, traceVars >>


(***************************************************************************)
(* Helpers on sequences and on Python dicts.  A dict is the sequence of    *)
(* its values in insertion order; the key of a value is one of its fields. *)
(***************************************************************************)
Reverse(s) == [ i \in 1..Len(s) |-> s[Len(s) + 1 - i] ]

\* pathlib glob: the names of the existing files, in directory order
Glob(order, files, reversed) ==
    SelectSeq(IF reversed THEN Reverse(order) ELSE order,
              LAMBDA n : files[n] # Absent)

\* [1, ..., n]: the items of a list of which only the length is observed
Items(n) == [ i \in 1..n |-> i ]

\* d[key] = v on a dict keyed by uc_id: an existing key keeps its position
PutUseCase(d, v) ==
    IF \E i \in 1..Len(d) : d[i].uc_id = v.uc_id
    THEN [ i \in 1..Len(d) |-> IF d[i].uc_id = v.uc_id THEN v ELSE d[i] ]
    ELSE Append(d, v)

\* d[key] = v on a dict keyed by feature_name
PutFeature(d, v) ==
    IF \E i \in 1..Len(d) : d[i].feature_name = v.feature_name
    THEN [ i \in 1..Len(d) |-> IF d[i].feature_name = v.feature_name THEN v ELSE d[i] ]
    ELSE Append(d, v)

(***************************************************************************)
(* scripts/lib/alignment.py : AlignmentParser                              *)
(***************************************************************************)
\* _parse_use_case_file on a readable file: a UseCase, or None when the
\* file name does not start with UC-<digits>
NoUseCase == [ uc_id |-> "" ]

ParseUseCaseFile(name, doc) ==
    IF UcIdMatch(name) = "" THEN NoUseCase
    ELSE [ uc_id |-> UcIdMatch(name),
           file_path |-> name,
           acceptance_criteria |-> Items(doc.criteria),
           bdd_file_referenced |-> doc.bddRef ]

\* parse_use_cases: the loop over uc_dir.glob("UC-*.md").  read_text() is
\* not guarded: the first unreadable file ends the scan with an exception.
RECURSIVE ParseUseCasesLoop(_, _, _)
ParseUseCasesLoop(names, files, acc) ==
    IF names = <<>> THEN [ raised |-> FALSE, value |-> acc ]
    ELSE LET name == Head(names)
             doc  == files[name]
         IN  IF doc = Unreadable THEN [ raised |-> TRUE, value |-> <<>> ]
             ELSE LET uc == ParseUseCaseFile(name, doc)
                  IN  ParseUseCasesLoop(Tail(names), files,
                          IF uc = NoUseCase THEN acc ELSE PutUseCase(acc, uc))

ParseUseCases(exists, files, reversed) ==
    IF ~exists THEN [ raised |-> FALSE, value |-> <<>> ]
    ELSE ParseUseCasesLoop(Glob(UcFileOrder, files, reversed), files, <<>>)

\* an _extract_uc_reference that looks at the file name first
ExtractUcReferenceFilenameFirst(commentRef, filename) ==
    IF FilenameUcMatch(filename) # "" THEN Upper(FilenameUcMatch(filename))
    ELSE commentRef

\* _extract_uc_reference: the comment first, then the file name
ExtractUcReference(commentRef, filename) ==
    IF commentRef # "" THEN commentRef
    ELSE IF FilenameUcMatch(filename) # "" THEN Upper(FilenameUcMatch(filename))
    ELSE ""

\* _parse_bdd_file on a readable file: a BDDFeature, or None without a
\* "Feature:" line
NoFeature == [ feature_name |-> "" ]

ParseBddFile(name, doc) ==
    IF doc.featureLine = "" THEN NoFeature
    ELSE [ feature_name |-> Strip(doc.featureLine),
           file_path |-> name,
           scenarios |-> Items(doc.scenarios),
           uc_reference |-> ExtractUcReference(doc.commentRef, name) ]

\* parse_bdd_features: the loop over bdd_dir.rglob("*.feature")
RECURSIVE ParseBddFeaturesLoop(_, _, _)
ParseBddFeaturesLoop(names, files, acc) ==
    IF names = <<>> THEN [ raised |-> FALSE, value |-> acc ]
    ELSE LET name == Head(names)
             doc  == files[name]
         IN  IF doc = Unreadable THEN [ raised |-> TRUE, value |-> <<>> ]
             ELSE LET f == ParseBddFile(name, doc)
                  IN  ParseBddFeaturesLoop(Tail(names), files,
                          IF f = NoFeature THEN acc ELSE PutFeature(acc, f))

ParseBddFeatures(exists, files, reversed) ==
    IF ~exists THEN [ raised |-> FALSE, value |-> <<>> ]
    ELSE ParseBddFeaturesLoop(Glob(FeatureFileOrder, files, reversed), files, <<>>)

(***************************************************************************)
(* scripts/lib/alignment.py : AlignmentValidator                           *)
(* An AlignmentIssue is [issue_type, uc_id, feature_name, severity]; its   *)
(* message is a formatting of these fields and is left out.                *)
(***************************************************************************)
AlignmentIssue(type, uc, feature, sev) ==
    [ issue_type |-> type, uc_id |-> uc, feature_name |-> feature, severity |-> sev ]

\* map over a list
MapSeq(s, F(_)) == [ i \in 1..Len(s) |-> F(s[i]) ]

\* a check 1 that forgets to look at the features
CheckMissingBddFilesNoFilter(ucs, feats) ==
    MapSeq(ucs, LAMBDA uc : AlignmentIssue("missing_bdd", uc.uc_id, "", "error"))

\* a check 1 that also accepts the BDD file the use case declares
CheckMissingBddFilesUsesDeclared(ucs, feats) ==
    LET ucs_with_bdd == { feats[i].uc_reference :
                            i \in { j \in 1..Len(feats) : feats[j].uc_reference # "" } }
        declared(uc) == /\ uc.bdd_file_referenced # ""
                        /\ \E i \in 1..Len(feats) :
                              BaseNameLower(feats[i].file_path)
                                  = BaseNameLower(uc.bdd_file_referenced)
    IN  MapSeq(SelectSeq(ucs, LAMBDA uc : uc.uc_id \notin ucs_with_bdd /\ ~declared(uc)),
               LAMBDA uc : AlignmentIssue("missing_bdd", uc.uc_id, "", "error"))

\* Check 1: use cases no feature refers to
CheckMissingBddFiles(ucs, feats) ==
    LET ucs_with_bdd == { feats[i].uc_reference :
                            i \in { j \in 1..Len(feats) : feats[j].uc_reference # "" } }
    IN  MapSeq(SelectSeq(ucs, LAMBDA uc : uc.uc_id \notin ucs_with_bdd),
               LAMBDA uc : AlignmentIssue("missing_bdd", uc.uc_id, "", "error"))

\* a check 2 without its elif branch
CheckOrphanedFeaturesNoBroken(ucs, feats) ==
    MapSeq(SelectSeq(feats, LAMBDA f : f.uc_reference = ""),
           LAMBDA f : AlignmentIssue("orphaned_feature", "", f.feature_name, "warning"))

\* Check 2: features without a reference, or with a reference to no use case
CheckOrphanedFeatures(ucs, feats) ==
    LET uc_ids == { ucs[i].uc_id : i \in 1..Len(ucs) }
    IN  MapSeq(SelectSeq(feats, LAMBDA f : f.uc_reference = "" \/ f.uc_reference \notin uc_ids),
               LAMBDA f : IF f.uc_reference = ""
                          THEN AlignmentIssue("orphaned_feature", "", f.feature_name, "warning")
                          ELSE AlignmentIssue("broken_uc_ref", f.uc_reference,
                                              f.feature_name, "error"))

\* a uc_to_feature that keeps the first feature of each use case
UcToFeatureFirst(feats, uc_id) ==
    LET idx == { i \in 1..Len(feats) : feats[i].uc_reference = uc_id }
    IN  feats[CHOOSE i \in idx : \A j \in idx : i <= j]

\* uc_to_feature[uc_id]: the last feature, in dict order, that refers to uc_id
UcToFeature(feats, uc_id) ==
    LET idx == { i \in 1..Len(feats) : feats[i].uc_reference = uc_id }
    IN  feats[CHOOSE i \in idx : \A j \in idx : j <= i]

\* a check 3 that compares with == instead of !=
CheckCountMismatchInverted(ucs, feats) ==
    LET mapped(uc) == \E i \in 1..Len(feats) : feats[i].uc_reference = uc.uc_id
        same(uc) == Len(uc.acceptance_criteria)
                          = Len(UcToFeature(feats, uc.uc_id).scenarios)
    IN  MapSeq(SelectSeq(ucs, LAMBDA uc : mapped(uc) /\ same(uc)),
               LAMBDA uc : AlignmentIssue("count_mismatch", uc.uc_id,
                                          UcToFeature(feats, uc.uc_id).feature_name,
                                          "warning"))

\* a check 3 that takes a use case without a feature for zero scenarios
CheckCountMismatchNoSkip(ucs, feats) ==
    LET mapped(uc) == \E i \in 1..Len(feats) : feats[i].uc_reference = uc.uc_id
        count(uc) == IF mapped(uc) THEN Len(UcToFeature(feats, uc.uc_id).scenarios) ELSE 0
        name(uc) == IF mapped(uc) THEN UcToFeature(feats, uc.uc_id).feature_name ELSE ""
    IN  MapSeq(SelectSeq(ucs, LAMBDA uc : Len(uc.acceptance_criteria) # count(uc)),
               LAMBDA uc : AlignmentIssue("count_mismatch", uc.uc_id, name(uc), "warning"))

\* a check 3 that compares a use case with every feature that refers to it
CheckCountMismatchEveryFeature(ucs, feats) ==
    LET of(uc) == MapSeq(SelectSeq(feats, LAMBDA f :
                             /\ f.uc_reference = uc.uc_id
                             /\ Len(f.scenarios) # Len(uc.acceptance_criteria)),
                         LAMBDA f : AlignmentIssue("count_mismatch", uc.uc_id,
                                                   f.feature_name, "warning"))
        RECURSIVE all(_)
        all(us) == IF us = <<>> THEN <<>> ELSE of(Head(us)) \o all(Tail(us))
    IN  all(ucs)

\* Check 3: criteria count against the scenario count of the mapped feature
CheckCountMismatch(ucs, feats) ==
    LET mapped(uc) == \E i \in 1..Len(feats) : feats[i].uc_reference = uc.uc_id
        differs(uc) == Len(uc.acceptance_criteria)
                          # Len(UcToFeature(feats, uc.uc_id).scenarios)
    IN  MapSeq(SelectSeq(ucs, LAMBDA uc : mapped(uc) /\ differs(uc)),
               LAMBDA uc : AlignmentIssue("count_mismatch", uc.uc_id,
                                          UcToFeature(feats, uc.uc_id).feature_name,
                                          "warning"))

\* a check 4 that compares the base names as they are written
CheckBrokenReferencesCaseSensitive(ucs, feats) ==
    LET base(p) == IF p = "features/cart.feature" THEN "cart.feature" ELSE p
        existing_bdd_files == { base(feats[i].file_path) : i \in 1..Len(feats) }
    IN  MapSeq(SelectSeq(ucs, LAMBDA uc :
                   /\ uc.bdd_file_referenced # ""
                   /\ base(uc.bdd_file_referenced) \notin existing_bdd_files),
               LAMBDA uc : AlignmentIssue("broken_bdd_ref", uc.uc_id, "", "error"))

\* Check 4: declared BDD files that are the file of no parsed feature
CheckBrokenReferences(ucs, feats) ==
    LET existing_bdd_files == { BaseNameLower(feats[i].file_path) : i \in 1..Len(feats) }
    IN  MapSeq(SelectSeq(ucs, LAMBDA uc :
                   /\ uc.bdd_file_referenced # ""
                   /\ BaseNameLower(uc.bdd_file_referenced) \notin existing_bdd_files),
               LAMBDA uc : AlignmentIssue("broken_bdd_ref", uc.uc_id, "", "error"))

\* a validate that runs check 4 before the others
AlignmentValidateBrokenFirst(ucs, feats) ==
    CheckBrokenReferences(ucs, feats)
        \o CheckMissingBddFiles(ucs, feats)
        \o CheckOrphanedFeatures(ucs, feats)
        \o CheckCountMismatch(ucs, feats)

\* validate: the four checks, concatenated in this order
AlignmentValidate(ucs, feats) ==
    CheckMissingBddFiles(ucs, feats)
        \o CheckOrphanedFeatures(ucs, feats)
        \o CheckCountMismatch(ucs, feats)
        \o CheckBrokenReferences(ucs, feats)


(***************************************************************************)
(* scripts/check-alignment.py : main, with the default directories         *)
(***************************************************************************)
\* a start of main for which a missing BDD directory is an error as well
A_CheckDirsBddFatal ==
    /\ a_pc = "start"
    /\ IF ~ucDirExists \/ ~bddDirExists
       THEN /\ a_exit' = 2
            /\ a_pc' = "done"
       ELSE /\ a_pc' = "parse_uc"
            /\ UNCHANGED a_exit
    /\ UNCHANGED << diskVars, use_cases, bdd_features, issues, traceVars >>

\* lines 169-180: a missing use-case directory ends the run with code 2, a
\* missing BDD directory is created
A_CheckDirs ==
    /\ a_pc = "start"
    /\ IF ~ucDirExists
       THEN /\ a_exit' = 2
            /\ a_pc' = "done"
            /\ UNCHANGED bddDirExists
       ELSE /\ bddDirExists' = TRUE
            /\ a_pc' = "parse_uc"
            /\ UNCHANGED a_exit
    /\ UNCHANGED << ucDirExists, svcDirExists, ucFiles, featureFiles, serviceFiles,
                    globReversed, use_cases, bdd_features, issues, traceVars >>

\* lines 185-190: parser.parse_use_cases(uc_dir); an exception leaves main
\* and the handler of __main__ exits with code 2
A_ParseUseCases ==
    /\ a_pc = "parse_uc"
    /\ LET r == ParseUseCases(ucDirExists, ucFiles, globReversed)
       IN  IF r.raised
           THEN /\ a_exit' = 2
                /\ a_pc' = "done"
                /\ UNCHANGED use_cases
           ELSE /\ use_cases' = r.value
                /\ a_pc' = "parse_bdd"
                /\ UNCHANGED a_exit
    /\ UNCHANGED << diskVars, bdd_features, issues, traceVars >>

\* lines 192-195: parser.parse_bdd_features(bdd_dir)
A_ParseBddFeatures ==
    /\ a_pc = "parse_bdd"
    /\ LET r == ParseBddFeatures(bddDirExists, featureFiles, globReversed)
       IN  IF r.raised
           THEN /\ a_exit' = 2
                /\ a_pc' = "done"
                /\ UNCHANGED bdd_features
           ELSE /\ bdd_features' = r.value
                /\ a_pc' = "validate"
                /\ UNCHANGED a_exit
    /\ UNCHANGED << diskVars, use_cases, issues, traceVars >>

\* lines 218-237: the return code of main after the report
ExitCode(found) == IF found = <<>> THEN 0 ELSE 1

\* a validate that removes from its input the use cases it reports
A_ValidateAndExitConsuming ==
    /\ a_pc = "validate"
    /\ issues' = AlignmentValidate(use_cases, bdd_features)
    /\ a_exit' = ExitCode(issues')
    /\ a_pc' = "done"
    /\ use_cases' = SelectSeq(use_cases, LAMBDA uc :
                        \A k \in 1..Len(issues') : issues'[k].uc_id # uc.uc_id)
    /\ UNCHANGED << diskVars, bdd_features, traceVars >>

\* lines 201-237: validator.validate(use_cases, bdd_features), the report
\* and the return code of main
A_ValidateAndExit ==
    /\ a_pc = "validate"
    /\ issues' = AlignmentValidate(use_cases, bdd_features)
    /\ a_exit' = ExitCode(issues')
    /\ a_pc' = "done"
    /\ UNCHANGED << diskVars, use_cases, bdd_features, traceVars >>

(***************************************************************************)
(* Initial states: the disk before a run of check-alignment.py.            *)
(***************************************************************************)
\* the directories whose file of each name is one of Docs(name)
UcDirs(Docs(_)) ==
    { (UcFileOrder[1] :> a) @@ (UcFileOrder[2] :> b)
          @@ (UcFileOrder[3] :> c) @@ (UcFileOrder[4] :> d) :
        a \in Docs(UcFileOrder[1]), b \in Docs(UcFileOrder[2]),
        c \in Docs(UcFileOrder[3]), d \in Docs(UcFileOrder[4]) }

FeatureDirs(Docs(_)) ==
    { (FeatureFileOrder[1] :> a) @@ (FeatureFileOrder[2] :> b) :
        a \in Docs(FeatureFileOrder[1]), b \in Docs(FeatureFileOrder[2]) }

ServiceTrees(Docs(_)) ==
    { (ServiceDirOrder[1] :> a) @@ (ServiceDirOrder[2] :> b) :
        a \in Docs(ServiceDirOrder[1]), b \in Docs(ServiceDirOrder[2]) }

\* a directory that does not exist holds no file
NoFile(name) == { Absent }

\* a name that is not UC-<digits> is tried with one text only
UcAlignDocs(name) ==
    IF UcIdMatch(name) = ""
    THEN { Absent, Unreadable,
           [ kind |-> "text", criteria |-> 0, bddRef |-> "",
             services |-> <<>>, justified |-> FALSE ] }
    ELSE { Absent, Unreadable } \cup UcAlignTexts

FeatureDocs(name) == { Absent, Unreadable } \cup FeatureTexts

TraceIdle ==
    /\ t_pc = "idle"
    /\ t_use_cases = <<>>
    /\ t_services = <<>>
    /\ t_issues = [ orphan_services |-> <<>>, unjustified_serviceless_ucs |-> <<>>,
                    missing_services |-> <<>>, bidirectional_mismatches |-> <<>> ]
    /\ t_exit = -1

InitAlign ==
    /\ ucDirExists \in BOOLEAN
    /\ bddDirExists \in BOOLEAN
    /\ svcDirExists = FALSE
    /\ globReversed \in BOOLEAN
    /\ ucFiles \in IF ucDirExists THEN UcDirs(UcAlignDocs) ELSE UcDirs(NoFile)
    /\ featureFiles \in IF bddDirExists THEN FeatureDirs(FeatureDocs)
                                        ELSE FeatureDirs(NoFile)
    /\ serviceFiles = [ d \in ServiceDirs |-> Absent ]
    /\ a_pc = "start"
    /\ use_cases = <<>>
    /\ bdd_features = <<>>
    /\ issues = <<>>
    /\ a_exit = -1
    /\ TraceIdle

NextAlign ==
    \/ A_CheckDirs
    \/ A_ParseUseCases
    \/ A_ParseBddFeatures
    \/ A_ValidateAndExit

SpecAlign == InitAlign /\ [][NextAlign]_vars


(***************************************************************************)
(* scripts/lib/traceability.py : TraceabilityParser                        *)
(***************************************************************************)
\* a _parse_uc_file that looks for the justification in every document
ParseUcFileKeepJustification(name, doc) ==
    [ id |-> IF UcIdMatch(name) # "" THEN UcIdMatch(name) ELSE Stem(name),
      name |-> Stem(name),
      file_path |-> name,
      services_used |-> doc.services,
      has_justification |-> doc.justified ]

\* _parse_uc_file on a readable file; has_justification is looked for only
\* when the Services Used table gave nothing
ParseUcFile(name, doc) ==
    [ id |-> IF UcIdMatch(name) # "" THEN UcIdMatch(name) ELSE Stem(name),
      name |-> Stem(name),
      file_path |-> name,
      services_used |-> doc.services,
      has_justification |-> (doc.services = <<>> /\ doc.justified) ]

\* parse_use_cases: sorted(uc_dir.glob("UC-*.md")), each file under its own
\* try/except: an unreadable file is reported and left out
RECURSIVE TraceParseUseCasesLoop(_, _, _)
TraceParseUseCasesLoop(names, files, acc) ==
    IF names = <<>> THEN acc
    ELSE LET name == Head(names)
             doc  == files[name]
         IN  TraceParseUseCasesLoop(Tail(names), files,
                 IF doc = Unreadable THEN acc
                 ELSE Append(acc, ParseUcFile(name, doc)))

TraceParseUseCases(exists, files) ==
    IF ~exists THEN <<>>
    ELSE TraceParseUseCasesLoop(Glob(UcFileOrder, files, FALSE), files, <<>>)

\* _parse_service_file on a readable services/<dir>/service-spec.md
ParseServiceFile(dir, doc) ==
    [ id |-> IF doc.declaredId # "" THEN doc.declaredId ELSE dir,
      name |-> dir,
      file_path |-> dir,
      used_by |-> doc.usedBy ]

\* parse_services: services_dir.glob("*/service-spec.md"), each file under
\* its own try/except
RECURSIVE ParseServicesLoop(_, _, _)
ParseServicesLoop(dirs, files, acc) ==
    IF dirs = <<>> THEN acc
    ELSE LET dir == Head(dirs)
             doc == files[dir]
         IN  ParseServicesLoop(Tail(dirs), files,
                 IF doc = Unreadable THEN acc
                 ELSE Append(acc, ParseServiceFile(dir, doc)))

ParseServices(exists, files, reversed) ==
    IF ~exists THEN <<>>
    ELSE ParseServicesLoop(Glob(ServiceDirOrder, files, reversed), files, <<>>)

(***************************************************************************)
(* scripts/lib/traceability.py : TraceabilityValidator.validate            *)
(***************************************************************************)
\* the elements of a list
Range(s) == { s[i] : i \in 1..Len(s) }

\* concatenation of a list of lists
RECURSIVE Flatten(_)
Flatten(ss) == IF ss = <<>> THEN <<>> ELSE Head(ss) \o Flatten(Tail(ss))

\* service_by_id.get(ref): the last service of the list with that id
NoService == [ id |-> "" ]

ServiceById(services, ref) ==
    LET idx == { i \in 1..Len(services) : services[i].id = ref }
    IN  IF idx = {} THEN NoService
        ELSE services[CHOOSE i \in idx : \A j \in idx : j <= i]

\* next((s for s in services if s.name == ref), None)
ServiceByName(services, ref) ==
    LET idx == { i \in 1..Len(services) : services[i].name = ref }
    IN  IF idx = {} THEN NoService
        ELSE services[CHOOSE i \in idx : \A j \in idx : i <= j]

\* a resolution that tries the name before the id
ResolveServiceNameFirst(services, ref) ==
    IF ServiceByName(services, ref) # NoService THEN ServiceByName(services, ref)
    ELSE ServiceById(services, ref)

\* a resolution by id only
ResolveServiceIdOnly(services, ref) == ServiceById(services, ref)

\* check 4, forward: the service a reference stands for, by id, then by name
ResolveService(services, ref) ==
    IF ServiceById(services, ref) # NoService THEN ServiceById(services, ref)
    ELSE ServiceByName(services, ref)

\* next((u for u in use_cases if u.id == uc_ref), None)
NoUc == [ id |-> "" ]

UcById(ucs, ref) ==
    LET idx == { i \in 1..Len(ucs) : ucs[i].id = ref }
    IN  IF idx = {} THEN NoUc
        ELSE ucs[CHOOSE i \in idx : \A j \in idx : i <= j]

\* Check 1: use cases with no service and no justification
UnjustifiedServicelessUcs(ucs) ==
    SelectSeq(ucs, LAMBDA uc : uc.services_used = <<>> /\ ~uc.has_justification)

\* a check 2 that looks for the id of the service only
OrphanServicesIdOnly(ucs, services) ==
    LET used_services == UNION { Range(ucs[i].services_used) : i \in 1..Len(ucs) }
    IN  SelectSeq(services, LAMBDA s : s.id \notin used_services)

\* Check 2: services whose id and name are in no services_used
OrphanServices(ucs, services) ==
    LET used_services == UNION { Range(ucs[i].services_used) : i \in 1..Len(ucs) }
    IN  SelectSeq(services, LAMBDA s :
            /\ s.id \notin used_services
            /\ s.name \notin used_services
            /\ ~\E i \in 1..Len(ucs) : \/ s.id \in Range(ucs[i].services_used)
                                       \/ s.name \in Range(ucs[i].services_used))

\* a check 3 that looks the reference up by id only
MissingServicesIdOnly(ucs, services) ==
    LET service_ids == { services[i].id : i \in 1..Len(services) }
        of(uc) == MapSeq(SelectSeq(uc.services_used, LAMBDA ref : ref \notin service_ids),
                         LAMBDA ref : [ uc |-> uc.id, service |-> ref,
                                        uc_file |-> uc.file_path ])
    IN  Flatten(MapSeq(ucs, of))

\* Check 3: references that are the id and the name of no service
MissingServices(ucs, services) ==
    LET service_ids == { services[i].id : i \in 1..Len(services) }
        found(ref) == \E i \in 1..Len(services) : services[i].name = ref
        of(uc) == MapSeq(SelectSeq(uc.services_used,
                                   LAMBDA ref : ref \notin service_ids /\ ~found(ref)),
                         LAMBDA ref : [ uc |-> uc.id, service |-> ref,
                                        uc_file |-> uc.file_path ])
    IN  Flatten(MapSeq(ucs, of))

\* a forward pass that reports the services that do list the use case
ForwardMismatchesInverted(ucs, services) ==
    LET rec(uc, s) == [ uc |-> uc.id, service |-> s.id,
                        issue |-> "UC references service but service does not list UC in \"Used By\" section",
                        uc_file |-> uc.file_path, service_file |-> s.file_path ]
        hit(uc, ref) == /\ ResolveService(services, ref) # NoService
                        /\ uc.id \in Range(ResolveService(services, ref).used_by)
        of(uc) == MapSeq(SelectSeq(uc.services_used, LAMBDA ref : hit(uc, ref)),
                         LAMBDA ref : rec(uc, ResolveService(services, ref)))
    IN  Flatten(MapSeq(ucs, of))

\* Check 4, forward pass: the UC is not in the Used By of a service it names
ForwardMismatches(ucs, services) ==
    LET rec(uc, s) == [ uc |-> uc.id, service |-> s.id,
                        issue |-> "UC references service but service does not list UC in \"Used By\" section",
                        uc_file |-> uc.file_path, service_file |-> s.file_path ]
        hit(uc, ref) == /\ ResolveService(services, ref) # NoService
                        /\ uc.id \notin Range(ResolveService(services, ref).used_by)
        of(uc) == MapSeq(SelectSeq(uc.services_used, LAMBDA ref : hit(uc, ref)),
                         LAMBDA ref : rec(uc, ResolveService(services, ref)))
    IN  Flatten(MapSeq(ucs, of))

\* a backward pass that also reports the ids that are the id of no use case
BackwardMismatchesDangling(ucs, services) ==
    LET rec(s, ref) == [ uc |-> ref, service |-> s.id,
                         issue |-> "Service lists UC but UC does not reference service",
                         uc_file |-> IF UcById(ucs, ref) = NoUc THEN ""
                                     ELSE UcById(ucs, ref).file_path,
                         service_file |-> s.file_path ]
        hit(s, ref) == \/ UcById(ucs, ref) = NoUc
                       \/ /\ s.id \notin Range(UcById(ucs, ref).services_used)
                          /\ s.name \notin Range(UcById(ucs, ref).services_used)
        of(s) == MapSeq(SelectSeq(s.used_by, LAMBDA ref : hit(s, ref)),
                        LAMBDA ref : rec(s, ref))
    IN  Flatten(MapSeq(services, of))

\* Check 4, backward pass: a service lists a UC that does not name it
BackwardMismatches(ucs, services) ==
    LET rec(s, ref) == [ uc |-> ref, service |-> s.id,
                         issue |-> "Service lists UC but UC does not reference service",
                         uc_file |-> UcById(ucs, ref).file_path,
                         service_file |-> s.file_path ]
        hit(s, ref) == /\ UcById(ucs, ref) # NoUc
                       /\ s.id \notin Range(UcById(ucs, ref).services_used)
                       /\ s.name \notin Range(UcById(ucs, ref).services_used)
        of(s) == MapSeq(SelectSeq(s.used_by, LAMBDA ref : hit(s, ref)),
                        LAMBDA ref : rec(s, ref))
    IN  Flatten(MapSeq(services, of))

\* validate: the dict of the four lists
NoIssues ==
    [ orphan_services |-> <<>>, unjustified_serviceless_ucs |-> <<>>,
      missing_services |-> <<>>, bidirectional_mismatches |-> <<>> ]

TraceabilityValidate(ucs, services) ==
    [ orphan_services |-> OrphanServices(ucs, services),
      unjustified_serviceless_ucs |-> UnjustifiedServicelessUcs(ucs),
      missing_services |-> MissingServices(ucs, services),
      bidirectional_mismatches |->
          ForwardMismatches(ucs, services) \o BackwardMismatches(ucs, services) ]

(***************************************************************************)
(* scripts/validate-traceability.py : main                                 *)
(***************************************************************************)
\* lines 36-42: without the use-case directory the validation is skipped
T_CheckDir ==
    /\ t_pc = "start"
    /\ IF ~ucDirExists
       THEN /\ t_exit' = 0
            /\ t_pc' = "done"
       ELSE /\ t_pc' = "parse"
            /\ UNCHANGED t_exit
    /\ UNCHANGED << diskVars, alignVars, t_use_cases, t_services, t_issues >>

\* lines 50-58: both scans; without any use case the run ends with code 0
T_Parse ==
    /\ t_pc = "parse"
    /\ t_use_cases' = TraceParseUseCases(ucDirExists, ucFiles)
    /\ t_services' = IF svcDirExists
                     THEN ParseServices(svcDirExists, serviceFiles, globReversed)
                     ELSE <<>>
    /\ IF t_use_cases' = <<>>
       THEN /\ t_exit' = 0
            /\ t_pc' = "done"
       ELSE /\ t_pc' = "validate"
            /\ UNCHANGED t_exit
    /\ UNCHANGED << diskVars, alignVars, t_issues >>

\* any(issues.values())
HasIssues(found) ==
    \/ found.orphan_services # <<>>
    \/ found.unjustified_serviceless_ucs # <<>>
    \/ found.missing_services # <<>>
    \/ found.bidirectional_mismatches # <<>>

\* lines 65-84: validate, the report and the return code of main
T_ValidateAndExit ==
    /\ t_pc = "validate"
    /\ t_issues' = TraceabilityValidate(t_use_cases, t_services)
    /\ t_exit' = IF HasIssues(t_issues') THEN 1 ELSE 0
    /\ t_pc' = "done"
    /\ UNCHANGED << diskVars, alignVars, t_use_cases, t_services >>

(***************************************************************************)
(* Initial states: the disk before a run of validate-traceability.py.      *)
(***************************************************************************)
\* UC-1-a.md takes the longest Services Used tables, the others a row
UcTraceDocs(name) ==
    IF name = "UC-1-a.md"
    THEN { Absent, Unreadable }
             \cup { t \in UcTraceTexts : t.justified => Len(t.services) <= 1 }
    ELSE IF name = "UC-1-b.md"
    THEN { Absent, Unreadable } \cup { t \in UcTraceTexts : Len(t.services) <= 1 }
    ELSE IF UcIdMatch(name) = ""
    THEN { Absent,
           [ kind |-> "text", criteria |-> 0, bddRef |-> "",
             services |-> <<>>, justified |-> FALSE ] }
    ELSE { Absent }
             \cup { t \in UcTraceTexts : t.services \in { <<>>, << "auth" >> } /\ ~t.justified }

\* a directory named like a service id declares no other id
ServiceDocs(dir) ==
    IF dir = "SVC-1"
    THEN { Absent } \cup { t \in ServiceTexts : t.declaredId = "" }
    ELSE { Absent, Unreadable } \cup ServiceTexts

AlignIdle ==
    /\ a_pc = "idle"
    /\ use_cases = <<>>
    /\ bdd_features = <<>>
    /\ issues = <<>>
    /\ a_exit = -1

InitTrace ==
    /\ ucDirExists \in BOOLEAN
    /\ bddDirExists = FALSE
    /\ svcDirExists \in BOOLEAN
    /\ globReversed \in BOOLEAN
    /\ ucFiles \in IF ucDirExists THEN UcDirs(UcTraceDocs) ELSE UcDirs(NoFile)
    /\ featureFiles = [ n \in FeatureFileNames |-> Absent ]
    /\ serviceFiles \in IF svcDirExists THEN ServiceTrees(ServiceDocs)
                                        ELSE ServiceTrees(NoFile)
    /\ t_pc = "start"
    /\ t_use_cases = <<>>
    /\ t_services = <<>>
    /\ t_issues = NoIssues
    /\ t_exit = -1
    /\ AlignIdle

NextTrace ==
    \/ T_CheckDir
    \/ T_Parse
    \/ T_ValidateAndExit

SpecTrace == InitTrace /\ [][NextTrace]_vars


(***************************************************************************)
(* Both command lines run, in any interleaving, on one project whose three *)
(* directories may each be missing.  Neither run writes a file the other   *)
(* reads.                                                                  *)
(***************************************************************************)
\* a use-case file with both an Acceptance Criteria section and a Services
\* Used table, or with neither
UcProjectDocs(name) ==
    IF UcIdMatch(name) = ""
    THEN { Absent,
           [ kind |-> "text", criteria |-> 0, bddRef |-> "",
             services |-> <<>>, justified |-> FALSE ] }
    ELSE { Absent, Unreadable,
           [ kind |-> "text", criteria |-> 0, bddRef |-> "",
             services |-> <<>>, justified |-> FALSE ],
           [ kind |-> "text", criteria |-> 1, bddRef |-> "features/cart.feature",
             services |-> << "auth" >>, justified |-> FALSE ] }

FeatureProjectDocs(name) ==
    { Absent,
      [ kind |-> "text", featureLine |-> "Login", scenarios |-> 0, commentRef |-> "" ],
      [ kind |-> "text", featureLine |-> "Cart", scenarios |-> 1, commentRef |-> "UC-2" ] }

ServiceProjectDocs(dir) ==
    { Absent,
      [ kind |-> "text", declaredId |-> "", usedBy |-> <<>> ],
      [ kind |-> "text", declaredId |-> "", usedBy |-> << "UC-1" >> ] }

InitProject ==
    /\ ucDirExists \in BOOLEAN
    /\ bddDirExists \in BOOLEAN
    /\ svcDirExists \in BOOLEAN
    /\ globReversed \in BOOLEAN
    /\ ucFiles \in IF ucDirExists THEN UcDirs(UcProjectDocs) ELSE UcDirs(NoFile)
    /\ featureFiles \in IF bddDirExists THEN FeatureDirs(FeatureProjectDocs)
                                        ELSE FeatureDirs(NoFile)
    /\ serviceFiles \in IF svcDirExists THEN ServiceTrees(ServiceProjectDocs)
                                        ELSE ServiceTrees(NoFile)
    /\ a_pc = "start"
    /\ use_cases = <<>>
    /\ bdd_features = <<>>
    /\ issues = <<>>
    /\ a_exit = -1
    /\ t_pc = "start"
    /\ t_use_cases = <<>>
    /\ t_services = <<>>
    /\ t_issues = NoIssues
    /\ t_exit = -1

NextProject ==
    \/ NextAlign
    \/ NextTrace

SpecProject == InitProject /\ [][NextProject]_vars


(***************************************************************************)
(* Properties of check-alignment.py, checked under SpecAlign.              *)
(***************************************************************************)
\* validate has returned: the run ended with the code of the issue list
AlignValidated == a_pc = "done" /\ a_exit # 2

\* the positions of the issues of one type, use case and feature
IssuesOf(type, uc_id) ==
    { i \in 1..Len(issues) : issues[i].issue_type = type /\ issues[i].uc_id = uc_id }

IssuesOfFeature(type, feature_name) ==
    { i \in 1..Len(issues) :
        issues[i].issue_type = type /\ issues[i].feature_name = feature_name }

\* some feature of the repository refers to the use case
Referenced(uc) == \E i \in 1..Len(bdd_features) : bdd_features[i].uc_reference = uc.uc_id

\* C1: after validate, every use case that no feature refers to has exactly
\* one missing_bdd issue, and every use case some feature refers to has none.
C1_MissingBdd ==
    AlignValidated =>
        \A i \in 1..Len(use_cases) :
            Cardinality(IssuesOf("missing_bdd", use_cases[i].uc_id))
                = IF Referenced(use_cases[i]) THEN 0 ELSE 1

\* C1 witness: a run with a use case that is referred to and one that is not
C1_Witness ==
    /\ AlignValidated
    /\ \E i, j \in 1..Len(use_cases) :
          /\ Referenced(use_cases[i])
          /\ ~Referenced(use_cases[j])
          /\ IssuesOf("missing_bdd", use_cases[j].uc_id) # {}

\* C2: a feature that refers to an existing use case and has as many
\* scenarios as the use case has criteria is named by no count_mismatch
\* issue of that use case, whatever other features refer to the use case.
C2_NoCountMismatchForEqualPair ==
    AlignValidated =>
        \A i \in 1..Len(use_cases), j \in 1..Len(bdd_features) :
            ( /\ bdd_features[j].uc_reference = use_cases[i].uc_id
              /\ Len(use_cases[i].acceptance_criteria) = Len(bdd_features[j].scenarios) )
            => ~\E k \in 1..Len(issues) :
                   /\ issues[k].issue_type = "count_mismatch"
                   /\ issues[k].uc_id = use_cases[i].uc_id
                   /\ issues[k].feature_name = bdd_features[j].feature_name

\* C2 witness: two features refer to one use case, one with the same count
\* and one with another count, and the other one is reported
C2_Witness ==
    /\ AlignValidated
    /\ \E i \in 1..Len(use_cases), j, l \in 1..Len(bdd_features) :
          /\ j # l
          /\ bdd_features[j].uc_reference = use_cases[i].uc_id
          /\ bdd_features[l].uc_reference = use_cases[i].uc_id
          /\ Len(use_cases[i].acceptance_criteria) = Len(bdd_features[j].scenarios)
          /\ \E k \in 1..Len(issues) :
                /\ issues[k].issue_type = "count_mismatch"
                /\ issues[k].uc_id = use_cases[i].uc_id
                /\ issues[k].feature_name = bdd_features[l].feature_name

\* C7: every feature gets exactly one of: one orphaned_feature warning (empty
\* reference), one broken_uc_ref error with its reference and name (reference
\* to no use case), no issue of check 2 (reference to a use case).
C7_OrphanedOrBrokenOrNothing ==
    AlignValidated =>
        \A j \in 1..Len(bdd_features) :
            LET f == bdd_features[j]
                orphaned == IssuesOfFeature("orphaned_feature", f.feature_name)
                broken == IssuesOfFeature("broken_uc_ref", f.feature_name)
                exists == \E i \in 1..Len(use_cases) : use_cases[i].uc_id = f.uc_reference
            IN  IF f.uc_reference = ""
                THEN /\ Cardinality(orphaned) = 1
                     /\ broken = {}
                     /\ \A k \in orphaned : issues[k].severity = "warning"
                ELSE IF ~exists
                THEN /\ orphaned = {}
                     /\ Cardinality(broken) = 1
                     /\ \A k \in broken : /\ issues[k].uc_id = f.uc_reference
                                          /\ issues[k].severity = "error"
                ELSE orphaned = {} /\ broken = {}

\* C7 witness: a run with an orphaned feature and a broken reference
C7_Witness ==
    /\ AlignValidated
    /\ \E j, l \in 1..Len(bdd_features) :
          /\ bdd_features[j].uc_reference = ""
          /\ IssuesOfFeature("orphaned_feature", bdd_features[j].feature_name) # {}
          /\ bdd_features[l].uc_reference # ""
          /\ IssuesOfFeature("broken_uc_ref", bdd_features[l].feature_name) # {}

\* the issues that carry the id of a use case
IssuesOfUc(uc_id) == { k \in 1..Len(issues) : issues[k].uc_id = uc_id }

\* C8 as stated: a use case with n criteria and no declared BDD file, and a
\* feature that refers to it with n scenarios, leave no issue with its id.
C8_RoundTripAsStated ==
    AlignValidated =>
        \A i \in 1..Len(use_cases), j \in 1..Len(bdd_features) :
            ( /\ use_cases[i].bdd_file_referenced = ""
              /\ bdd_features[j].uc_reference = use_cases[i].uc_id
              /\ Len(bdd_features[j].scenarios) = Len(use_cases[i].acceptance_criteria) )
            => IssuesOfUc(use_cases[i].uc_id) = {}

\* C8 amended: the same, when the feature is the last one, in the iteration
\* order of the features, that refers to the use case.
C8_RoundTripLastFeature ==
    AlignValidated =>
        \A i \in 1..Len(use_cases), j \in 1..Len(bdd_features) :
            ( /\ use_cases[i].bdd_file_referenced = ""
              /\ bdd_features[j].uc_reference = use_cases[i].uc_id
              /\ \A l \in 1..Len(bdd_features) :
                    bdd_features[l].uc_reference = use_cases[i].uc_id => l <= j
              /\ Len(bdd_features[j].scenarios) = Len(use_cases[i].acceptance_criteria) )
            => IssuesOfUc(use_cases[i].uc_id) = {}

\* C8 witness: the round trip with one criterion and one scenario, after an
\* earlier feature with another count referred to the same use case
C8_Witness ==
    /\ AlignValidated
    /\ \E i \in 1..Len(use_cases), j, l \in 1..Len(bdd_features) :
          /\ l < j
          /\ use_cases[i].bdd_file_referenced = ""
          /\ bdd_features[j].uc_reference = use_cases[i].uc_id
          /\ bdd_features[l].uc_reference = use_cases[i].uc_id
          /\ Len(use_cases[i].acceptance_criteria) > 0
          /\ Len(bdd_features[j].scenarios) = Len(use_cases[i].acceptance_criteria)
          /\ Len(bdd_features[l].scenarios) # Len(use_cases[i].acceptance_criteria)
          /\ IssuesOfUc(use_cases[i].uc_id) = {}


(***************************************************************************)
(* Properties of validate-traceability.py, checked under SpecTrace.        *)
(***************************************************************************)
\* validate has returned
TraceValidated == t_pc = "done" /\ t_use_cases # <<>>

\* the UC names the service, by id or by name
Lists(uc, s) ==
    s.id \in Range(uc.services_used) \/ s.name \in Range(uc.services_used)

\* the positions of the mismatch records of a pair of ids
MismatchesOf(uc_id, service_id) ==
    { k \in 1..Len(t_issues.bidirectional_mismatches) :
        /\ t_issues.bidirectional_mismatches[k].uc = uc_id
        /\ t_issues.bidirectional_mismatches[k].service = service_id }

\* C3: when a use case names a service (by id or name) and the service
\* lists the use case in used_by, no bidirectional mismatch carries the id
\* of the use case and the id of the service, whatever else is in the input.
C3_Symmetry ==
    TraceValidated =>
        \A i \in 1..Len(t_use_cases), j \in 1..Len(t_services) :
            ( /\ Lists(t_use_cases[i], t_services[j])
              /\ t_use_cases[i].id \in Range(t_services[j].used_by) )
            => MismatchesOf(t_use_cases[i].id, t_services[j].id) = {}

\* the reference is the id or the name of a service of the input
Resolvable(ref) ==
    \E j \in 1..Len(t_services) : t_services[j].id = ref \/ t_services[j].name = ref

\* the positions of the missing_services records of one reference of one file
MissingOf(uc, ref) ==
    { k \in 1..Len(t_issues.missing_services) :
        /\ t_issues.missing_services[k].uc = uc.id
        /\ t_issues.missing_services[k].uc_file = uc.file_path
        /\ t_issues.missing_services[k].service = ref }

\* the positions of a reference in a Services Used list
Occurrences(uc, ref) ==
    { k \in 1..Len(uc.services_used) : uc.services_used[k] = ref }

\* C10: a reference of a use case has one missing_services record per
\* occurrence, carrying the use case id and the reference unchanged, exactly
\* when it is the id and the name of no service; there is no other record.
C10_MissingServices ==
    TraceValidated =>
        /\ \A i \in 1..Len(t_use_cases) : \A ref \in Range(t_use_cases[i].services_used) :
              Cardinality(MissingOf(t_use_cases[i], ref))
                  = IF Resolvable(ref) THEN 0
                    ELSE Cardinality(Occurrences(t_use_cases[i], ref))
        /\ \A k \in 1..Len(t_issues.missing_services) :
              \E i \in 1..Len(t_use_cases) :
                  /\ t_issues.missing_services[k].service
                        \in Range(t_use_cases[i].services_used)
                  /\ k \in MissingOf(t_use_cases[i], t_issues.missing_services[k].service)

\* C10 witness: one use case names a missing service twice and names a
\* service by its name, which is the id of no service
C10_Witness ==
    /\ TraceValidated
    /\ \E i \in 1..Len(t_use_cases) : \E ref \in Range(t_use_cases[i].services_used) :
          /\ ~Resolvable(ref)
          /\ Cardinality(MissingOf(t_use_cases[i], ref)) = 2
    /\ \E i \in 1..Len(t_use_cases) : \E ref \in Range(t_use_cases[i].services_used) :
          /\ \E j \in 1..Len(t_services) : t_services[j].name = ref
          /\ \A j \in 1..Len(t_services) : t_services[j].id # ref
          /\ MissingOf(t_use_cases[i], ref) = {}

(***************************************************************************)
(* Properties of the two command lines and of the scans.                   *)
(***************************************************************************)
\* the directory without the files whose read_text() raises
ReadableOnly(files) ==
    [ n \in DOMAIN files |-> IF files[n] = Unreadable THEN Absent ELSE files[n] ]

\* some file of the directory cannot be read
SomeUnreadable(files) == \E n \in DOMAIN files : files[n] = Unreadable

\* C4, check-alignment.py: 2 without the use-case directory or on a file
\* system error, else 0 without issues and 1 with issues
C4_AlignExitCode ==
    a_pc = "done" =>
        a_exit = IF ~ucDirExists \/ SomeUnreadable(ucFiles) \/ SomeUnreadable(featureFiles)
                 THEN 2
                 ELSE IF AlignmentValidate(
                             ParseUseCases(ucDirExists, ucFiles, globReversed).value,
                             ParseBddFeatures(bddDirExists, featureFiles, globReversed).value)
                         = <<>>
                 THEN 0 ELSE 1

\* C4, validate-traceability.py: 2 without the use-case directory, else 1
\* when the validator reports an issue for the entities on disk, else 0
C4_TraceExitCode ==
    t_pc = "done" =>
        t_exit = IF ~ucDirExists THEN 2
                 ELSE IF HasIssues(TraceabilityValidate(
                             TraceParseUseCases(ucDirExists, ucFiles),
                             ParseServices(svcDirExists, serviceFiles, globReversed)))
                 THEN 1 ELSE 0

\* C4: each command line returns 0 exactly when the validator finds no issue
\* for the entities on disk, 1 when it finds at least one (orphan services
\* without any use case included), 2 when the use-case directory is missing.
C4_ExitCode == C4_AlignExitCode /\ C4_TraceExitCode

\* C5, the scans of check-alignment.py: an unreadable file never ends the
\* scan, and the repository is the parse of the readable files
C5_AlignScans ==
    /\ a_pc \in {"parse_bdd", "validate", "done"} /\ ucDirExists
          => use_cases = ParseUseCases(ucDirExists, ReadableOnly(ucFiles), globReversed).value
    /\ a_pc = "done" /\ ucDirExists
          => /\ a_exit # 2
             /\ bdd_features
                   = ParseBddFeatures(bddDirExists, ReadableOnly(featureFiles),
                                      globReversed).value

\* C5, the scans of validate-traceability.py
C5_TraceScans ==
    t_pc \in {"validate", "done"} /\ ucDirExists
        => /\ t_use_cases = TraceParseUseCases(ucDirExists, ReadableOnly(ucFiles))
           /\ t_services = ParseServices(svcDirExists, ReadableOnly(serviceFiles),
                                         globReversed)

\* C5: in every directory scan an exception on one file is caught for that
\* file only: the file is left out and every other file is parsed and returned.
C5_PerFileCatch == C5_AlignScans /\ C5_TraceScans

\* the use-case files the scan can read, in its order
ReadableUcFiles(reversed) == Glob(UcFileOrder, ReadableOnly(ucFiles), reversed)

\* C6, alignment context: one use case per id, taken from the last file of
\* the scan with that id
C6_AlignUniqueIds ==
    a_pc \in {"parse_bdd", "validate"} \/ AlignValidated =>
        /\ \A i, j \in 1..Len(use_cases) : use_cases[i].uc_id = use_cases[j].uc_id => i = j
        /\ \A i \in 1..Len(use_cases) :
              LET order == ReadableUcFiles(globReversed)
                  same == { k \in 1..Len(order) : UcIdMatch(order[k]) = use_cases[i].uc_id }
              IN  /\ same # {}
                  /\ use_cases[i].file_path = order[CHOOSE k \in same : \A l \in same : l <= k]

\* C6, traceability context: one use case per id
C6_TraceUniqueIds ==
    t_pc \in {"validate", "done"} =>
        \A i, j \in 1..Len(t_use_cases) : t_use_cases[i].id = t_use_cases[j].id => i = j

\* C6: after a use-case scan, in both contexts, the repository holds at most
\* one use case per id, the one of the later-parsed file.
C6_UniqueIds == C6_AlignUniqueIds /\ C6_TraceUniqueIds


(***************************************************************************)
(* Properties of the four traceability checks, checked under SpecTrace.    *)
(***************************************************************************)
\* every reference of every use case of the input
UsedServices == UNION { Range(t_use_cases[i].services_used) : i \in 1..Len(t_use_cases) }

\* the positions of a service in orphan_services
OrphansOf(s) ==
    { k \in 1..Len(t_issues.orphan_services) :
        t_issues.orphan_services[k].file_path = s.file_path }

\* C11: a service is in orphan_services exactly once when neither its id nor
\* its name is a reference of any use case, and is not in it otherwise;
\* orphan_services holds nothing but services of the input.
C11_OrphanServices ==
    TraceValidated =>
        /\ \A j \in 1..Len(t_services) :
              Cardinality(OrphansOf(t_services[j]))
                  = IF t_services[j].id \notin UsedServices
                       /\ t_services[j].name \notin UsedServices
                    THEN 1 ELSE 0
        /\ Range(t_issues.orphan_services) \subseteq Range(t_services)

\* C11 witness: one service is an orphan, another is named by its name only
C11_Witness ==
    /\ TraceValidated
    /\ \E j \in 1..Len(t_services) :
          /\ t_services[j].id \notin UsedServices
          /\ t_services[j].name \notin UsedServices
          /\ OrphansOf(t_services[j]) # {}
    /\ \E j \in 1..Len(t_services) :
          /\ t_services[j].id \notin UsedServices
          /\ t_services[j].name \in UsedServices
          /\ OrphansOf(t_services[j]) = {}

\* the positions of a use-case file in unjustified_serviceless_ucs
UnjustifiedOf(uc) ==
    { k \in 1..Len(t_issues.unjustified_serviceless_ucs) :
        t_issues.unjustified_serviceless_ucs[k].file_path = uc.file_path }

\* C12: a use case is in unjustified_serviceless_ucs exactly when its
\* services_used is empty and its document holds no justification phrase; a
\* use case with a service has has_justification false, whatever its document
\* says, and is not in the list.
C12_UnjustifiedServiceless ==
    TraceValidated =>
        \A i \in 1..Len(t_use_cases) :
            LET uc == t_use_cases[i]
                doc == ucFiles[uc.file_path]
            IN  /\ (UnjustifiedOf(uc) # {})
                       <=> (uc.services_used = <<>> /\ ~doc.justified)
                /\ uc.services_used # <<>>
                       => (~uc.has_justification /\ UnjustifiedOf(uc) = {})

\* C12 witness: a document with a service and a justification phrase beside
\* a listed use case and a justified one without services
C12_Witness ==
    /\ TraceValidated
    /\ \E i \in 1..Len(t_use_cases) :
          /\ t_use_cases[i].services_used # <<>>
          /\ ucFiles[t_use_cases[i].file_path].justified
          /\ ~t_use_cases[i].has_justification
    /\ \E i \in 1..Len(t_use_cases) :
          /\ t_use_cases[i].services_used = <<>>
          /\ UnjustifiedOf(t_use_cases[i]) # {}
    /\ \E i \in 1..Len(t_use_cases) :
          /\ t_use_cases[i].services_used = <<>>
          /\ t_use_cases[i].has_justification
          /\ UnjustifiedOf(t_use_cases[i]) = {}

\* the positions of the forward and of the backward mismatch records
ForwardRecords ==
    { k \in 1..Len(t_issues.bidirectional_mismatches) :
        t_issues.bidirectional_mismatches[k].issue = "UC references service but service does not list UC in \"Used By\" section" }

BackwardRecords ==
    { k \in 1..Len(t_issues.bidirectional_mismatches) :
        t_issues.bidirectional_mismatches[k].issue = "Service lists UC but UC does not reference service" }

\* the forward records of one use-case file and one service file
ForwardOf(uc, s) ==
    { k \in ForwardRecords :
        /\ t_issues.bidirectional_mismatches[k].uc = uc.id
        /\ t_issues.bidirectional_mismatches[k].uc_file = uc.file_path
        /\ t_issues.bidirectional_mismatches[k].service = s.id
        /\ t_issues.bidirectional_mismatches[k].service_file = s.file_path }

\* the position in the input of the service a reference resolves to, 0 for
\* none: a service with that id (the last one scanned, when several share
\* it), otherwise the first service with that name
ResolvedIndex(ref) ==
    LET byId == { j \in 1..Len(t_services) : t_services[j].id = ref }
        byName == { j \in 1..Len(t_services) : t_services[j].name = ref }
    IN  IF byId # {} THEN CHOOSE j \in byId : \A m \in byId : m <= j
        ELSE IF byName # {} THEN CHOOSE j \in byName : \A m \in byName : j <= m
        ELSE 0

\* C13: the forward pass emits, for a use case and a service, one mismatch
\* with the id of the use case and the id of the service per reference of the
\* use case that resolves to the service, exactly when the id of the use case
\* is not in the used_by of the service; no other forward mismatch is emitted,
\* so a reference that resolves to no service produces none.
C13_ForwardPass ==
    TraceValidated =>
        /\ \A i \in 1..Len(t_use_cases), j \in 1..Len(t_services) :
              Cardinality(ForwardOf(t_use_cases[i], t_services[j]))
                  = IF t_use_cases[i].id \in Range(t_services[j].used_by) THEN 0
                    ELSE Cardinality({ k \in 1..Len(t_use_cases[i].services_used) :
                             ResolvedIndex(t_use_cases[i].services_used[k]) = j })
        /\ \A k \in ForwardRecords :
              \E i \in 1..Len(t_use_cases), j \in 1..Len(t_services) :
                  /\ k \in ForwardOf(t_use_cases[i], t_services[j])
                  /\ \E m \in 1..Len(t_use_cases[i].services_used) :
                        ResolvedIndex(t_use_cases[i].services_used[m]) = j

\* C13 witness: one use case has a reference resolved by name with a
\* mismatch, one resolved by id without a mismatch, and an unresolved one
C13_Witness ==
    /\ TraceValidated
    /\ \E i \in 1..Len(t_use_cases) :
          LET refs == t_use_cases[i].services_used
          IN  /\ \E m \in 1..Len(refs) :
                    /\ ResolvedIndex(refs[m]) # 0
                    /\ t_services[ResolvedIndex(refs[m])].id # refs[m]
                    /\ ForwardOf(t_use_cases[i], t_services[ResolvedIndex(refs[m])]) # {}
              /\ \E m \in 1..Len(refs) : ResolvedIndex(refs[m]) = 0
    /\ \E i \in 1..Len(t_use_cases) : \E m \in 1..Len(t_use_cases[i].services_used) :
          LET j == ResolvedIndex(t_use_cases[i].services_used[m])
          IN  /\ j # 0
              /\ t_services[j].id = t_use_cases[i].services_used[m]
              /\ t_use_cases[i].id \in Range(t_services[j].used_by)
              /\ ForwardOf(t_use_cases[i], t_services[j]) = {}

\* the backward records of one used_by entry of one service file
BackwardOf(s, u) ==
    { k \in BackwardRecords :
        /\ t_issues.bidirectional_mismatches[k].uc = u
        /\ t_issues.bidirectional_mismatches[k].service = s.id
        /\ t_issues.bidirectional_mismatches[k].service_file = s.file_path }

\* C14: for a service and an entry of its used_by that is the id of a use
\* case of the input, the backward pass emits a mismatch with that id and the
\* id of the service exactly when the use case names neither the id nor the
\* name of the service.
C14_BackwardPass ==
    TraceValidated =>
        \A j \in 1..Len(t_services) : \A u \in Range(t_services[j].used_by) :
            \A i \in 1..Len(t_use_cases) :
                t_use_cases[i].id = u
                    => ( (BackwardOf(t_services[j], u) # {})
                            <=> ~Lists(t_use_cases[i], t_services[j]) )

\* C14 on inputs in which no two use cases share an id
C14_BackwardPassUniqueIds ==
    (\A i, m \in 1..Len(t_use_cases) : t_use_cases[i].id = t_use_cases[m].id => i = m)
        => C14_BackwardPass


(***************************************************************************)
(* Properties of the four alignment checks, checked under SpecAlign.       *)
(***************************************************************************)
\* some feature of the repository is the file the use case declares
DeclaredFileExists(uc) ==
    \E j \in 1..Len(bdd_features) :
        BaseNameLower(bdd_features[j].file_path) = BaseNameLower(uc.bdd_file_referenced)

\* C15: a use case with a non-empty bdd_file_referenced has exactly one
\* broken_bdd_ref issue when the lower-cased base name of the reference is
\* the lower-cased base name of no feature of the repository, and none
\* otherwise; a use case with an empty bdd_file_referenced has none.
C15_BrokenBddRef ==
    AlignValidated =>
        \A i \in 1..Len(use_cases) :
            Cardinality(IssuesOf("broken_bdd_ref", use_cases[i].uc_id))
                = IF /\ use_cases[i].bdd_file_referenced # ""
                     /\ ~DeclaredFileExists(use_cases[i])
                  THEN 1 ELSE 0

\* C15 witness: the declared file is a feature file whose name differs in
\* case, beside a use case that declares no file
C15_Witness ==
    /\ AlignValidated
    /\ \E i \in 1..Len(use_cases) :
          /\ use_cases[i].bdd_file_referenced # ""
          /\ DeclaredFileExists(use_cases[i])
          /\ \A j \in 1..Len(bdd_features) :
                bdd_features[j].file_path # "cart.feature"
          /\ IssuesOf("broken_bdd_ref", use_cases[i].uc_id) = {}
    /\ \E i \in 1..Len(use_cases) : use_cases[i].bdd_file_referenced = ""

\* the check an issue type comes from
CheckOf(type) ==
    CASE type = "missing_bdd"      -> 1
      [] type = "orphaned_feature" -> 2
      [] type = "broken_uc_ref"    -> 2
      [] type = "count_mismatch"   -> 3
      [] type = "broken_bdd_ref"   -> 4
      [] OTHER                     -> 0

\* C16: in the list of issues of a finished run, an issue of a later check
\* never stands before an issue of an earlier check, and the list is the one
\* validate returns for the two repositories.
C16_OrderedByCheck ==
    AlignValidated =>
        /\ \A i, j \in 1..Len(issues) :
              i < j => CheckOf(issues[i].issue_type) <= CheckOf(issues[j].issue_type)
        /\ \A i \in 1..Len(issues) : CheckOf(issues[i].issue_type) # 0
        /\ issues = AlignmentValidate(use_cases, bdd_features)

\* C16 witness: issues of checks 1, 3 and 4 in one list
C16_Witness ==
    /\ AlignValidated
    /\ \E i, j, k \in 1..Len(issues) :
          /\ issues[i].issue_type = "missing_bdd"
          /\ issues[j].issue_type = "count_mismatch"
          /\ issues[k].issue_type = "broken_bdd_ref"

\* the number of issues of a type and a use case in a list
CountIn(list, type, uc_id) ==
    Cardinality({ k \in 1..Len(list) :
                    list[k].issue_type = type /\ list[k].uc_id = uc_id })

\* the use cases with another declared file at position i, the features
\* with another uc_reference at position j
WithBddRef(i, b) == [ use_cases EXCEPT ![i].bdd_file_referenced = b ]

WithUcReference(j, r) == [ bdd_features EXCEPT ![j].uc_reference = r ]

C18_UnreferencedUseCase ==
    AlignValidated =>
        \A i \in 1..Len(use_cases) :
            ~Referenced(use_cases[i])
                => /\ IssuesOf("count_mismatch", use_cases[i].uc_id) = {}
                   /\ Cardinality(IssuesOf("missing_bdd", use_cases[i].uc_id)) = 1
                   /\ IssuesOf("orphaned_feature", use_cases[i].uc_id) = {}
                   /\ IssuesOf("broken_uc_ref", use_cases[i].uc_id) = {}

\* C18 witness: two use cases without a feature, one with criteria and one
\* without, beside a feature with a scenario that refers to a third one
C18_Witness ==
    /\ AlignValidated
    /\ \E i, m \in 1..Len(use_cases) :
          /\ ~Referenced(use_cases[i])
          /\ ~Referenced(use_cases[m])
          /\ use_cases[i].acceptance_criteria # <<>>
          /\ use_cases[m].acceptance_criteria = <<>>
          /\ IssuesOf("missing_bdd", use_cases[i].uc_id) # {}
          /\ IssuesOf("missing_bdd", use_cases[m].uc_id) # {}
    /\ \E j \in 1..Len(bdd_features) : bdd_features[j].scenarios # <<>>

\* C20: every issue of a finished run has one of the five issue types and
\* the severity of its type (error for missing_bdd, broken_uc_ref and
\* broken_bdd_ref, warning for orphaned_feature and count_mismatch); its
\* uc_id is empty for orphaned_feature only, and its feature_name is
\* non-empty for orphaned_feature, broken_uc_ref and count_mismatch only.
C20_IssueShape ==
    AlignValidated =>
        \A k \in 1..Len(issues) :
            LET type == issues[k].issue_type
            IN  /\ type \in { "missing_bdd", "orphaned_feature", "count_mismatch",
                              "broken_bdd_ref", "broken_uc_ref" }
                /\ issues[k].severity
                      = IF type \in { "missing_bdd", "broken_uc_ref", "broken_bdd_ref" }
                        THEN "error" ELSE "warning"
                /\ (issues[k].uc_id # "") <=> (type # "orphaned_feature")
                /\ (issues[k].feature_name # "")
                      <=> (type \in { "orphaned_feature", "broken_uc_ref", "count_mismatch" })

\* C20 on runs in which every feature has a name that is not empty
C20_IssueShapeNamedFeatures ==
    (\A j \in 1..Len(bdd_features) : bdd_features[j].feature_name # "")
        => C20_IssueShape


(***************************************************************************)
(* Missing directories, checked under SpecProject.                         *)
(***************************************************************************)
\* the directory holds no file
NoFiles(files) == \A n \in DOMAIN files : files[n] = Absent

\* C19, the scans: on a directory that does not exist each of the scans
\* returns an empty repository and raises nothing.
C19_MissingDirScans ==
    /\ ~ucDirExists =>
          /\ ParseUseCases(ucDirExists, ucFiles, globReversed)
                = [ raised |-> FALSE, value |-> <<>> ]
          /\ TraceParseUseCases(ucDirExists, ucFiles) = <<>>
    /\ ~bddDirExists =>
          ParseBddFeatures(bddDirExists, featureFiles, globReversed)
              = [ raised |-> FALSE, value |-> <<>> ]
    /\ ~svcDirExists =>
          ParseServices(svcDirExists, serviceFiles, globReversed) = <<>>

\* C19, check-alignment.py: a run ends with code 2 only without the
\* use-case directory or on a file that cannot be read, so never for a
\* missing BDD directory; without any feature file the run validates the use
\* cases against zero features and its code is 1 with issues, 0 without.
C19_AlignNotFatal ==
    a_pc = "done" =>
        /\ a_exit = 2 =>
              \/ ~ucDirExists
              \/ SomeUnreadable(ucFiles)
              \/ SomeUnreadable(featureFiles)
        /\ (a_exit # 2 /\ NoFiles(featureFiles)) =>
              /\ bdd_features = <<>>
              /\ issues = AlignmentValidate(use_cases, <<>>)
              /\ a_exit = IF issues = <<>> THEN 0 ELSE 1

\* C19, validate-traceability.py: without the services directory the run
\* validates the use cases against zero services and its code is 1 with
\* issues, 0 without.
C19_TraceNotFatal ==
    (t_pc = "done" /\ ucDirExists /\ ~svcDirExists) =>
        /\ t_services = <<>>
        /\ t_use_cases # <<>> => t_issues = TraceabilityValidate(t_use_cases, <<>>)
        /\ t_exit = IF HasIssues(TraceabilityValidate(t_use_cases, <<>>)) THEN 1 ELSE 0

\* C19: a scan of a missing directory returns an empty repository and raises
\* nothing; at both command lines a missing BDD or services directory does
\* not end the run: it validates with zero features or zero services and the
\* exit code follows the issues found.
C19_MissingDirectories ==
    /\ C19_MissingDirScans
    /\ C19_AlignNotFatal
    /\ C19_TraceNotFatal

\* C19 witness: both runs have ended on a project with use cases and
\* neither a feature file nor a services directory, one run with code 1 for
\* its missing_bdd issues and the other with code 1 for its missing services
C19_Witness ==
    /\ a_pc = "done"
    /\ NoFiles(featureFiles)
    /\ use_cases # <<>>
    /\ bdd_features = <<>>
    /\ a_exit = 1
    /\ t_pc = "done"
    /\ ~svcDirExists
    /\ t_services = <<>>
    /\ t_issues.missing_services # <<>>
    /\ t_exit = 1


(***************************************************************************)
(* Further properties of check 4, checked under SpecTrace.                 *)
(***************************************************************************)
\* C21: for a use case and a service of the input, at most one forward
\* mismatch and at most one backward mismatch name the pair, however often
\* the use case lists the service.
C21_AtMostTwoPerPair ==
    TraceValidated =>
        \A i \in 1..Len(t_use_cases), j \in 1..Len(t_services) :
            /\ Cardinality(ForwardOf(t_use_cases[i], t_services[j])) <= 1
            /\ Cardinality(BackwardOf(t_services[j], t_use_cases[i].id)) <= 1

\* C21 on inputs in which no use case lists a service twice, by the same
\* text or once by id and once by name, and no used_by repeats an id
C21_AtMostTwoWithoutRepeats ==
    ( /\ \A i \in 1..Len(t_use_cases) :
            \A k, m \in 1..Len(t_use_cases[i].services_used) :
                ( /\ ResolvedIndex(t_use_cases[i].services_used[k]) # 0
                  /\ ResolvedIndex(t_use_cases[i].services_used[k])
                        = ResolvedIndex(t_use_cases[i].services_used[m]) ) => k = m
      /\ \A j \in 1..Len(t_services) :
            \A k, m \in 1..Len(t_services[j].used_by) :
                t_services[j].used_by[k] = t_services[j].used_by[m] => k = m )
        => C21_AtMostTwoPerPair


(***************************************************************************)
(* Effects of check-alignment.py on the file system, under SpecAlign.      *)
(***************************************************************************)
\* C22: no step of a run of check-alignment.py creates, changes or removes
\* a file or a directory.
C22_ReadOnly == [][UNCHANGED diskVars]_vars

\* C22 for the files: no step changes a file of the three directories
C22_FilesReadOnly == [][UNCHANGED << ucFiles, featureFiles, serviceFiles >>]_vars


UcForm == { "UC-1", "UC-2" }

\* C24: the uc_reference of a feature is the first UC-<digits> after a '#'
\* of its file when there is one; otherwise the upper-cased uc-<digits> of
\* its file name when there is one; otherwise it is empty.  A reference that
\* is not empty has the form UC-<digits>.
C24_UcReferenceOrder ==
    a_pc \in { "validate", "done" } =>
        \A j \in 1..Len(bdd_features) :
            LET f == bdd_features[j]
                doc == featureFiles[f.file_path]
            IN  /\ doc.commentRef # "" => f.uc_reference = doc.commentRef
                /\ (doc.commentRef = "" /\ f.file_path = "uc-1-login.feature")
                      => f.uc_reference = "UC-1"
                /\ (doc.commentRef = "" /\ f.file_path = "Cart.feature")
                      => f.uc_reference = ""
                /\ f.uc_reference # "" => f.uc_reference \in UcForm

\* C24 witness: a comment names UC-2 in the file uc-1-login.feature, beside
\* a feature without any reference
C24_Witness ==
    /\ a_pc = "done"
    /\ \E j, k \in 1..Len(bdd_features) :
          /\ bdd_features[j].file_path = "uc-1-login.feature"
          /\ featureFiles["uc-1-login.feature"].commentRef = "UC-2"
          /\ bdd_features[j].uc_reference = "UC-2"
          /\ bdd_features[k].uc_reference = ""


(***************************************************************************)
(* Further properties of checks 3 and 4, checked under SpecTrace.          *)
(***************************************************************************)
\* C25: for a use case and a service of the input, a forward mismatch of the
\* use case against the service and a backward mismatch of the service
\* against the id of the use case are never in the same result.
C25_NotBothDirections ==
    TraceValidated =>
        \A i \in 1..Len(t_use_cases), j \in 1..Len(t_services) :
            ~( /\ ForwardOf(t_use_cases[i], t_services[j]) # {}
               /\ BackwardOf(t_services[j], t_use_cases[i].id) # {} )

\* C25 witness: one result holds a forward mismatch of one pair and a
\* backward mismatch of another pair
C25_Witness ==
    /\ TraceValidated
    /\ \E i \in 1..Len(t_use_cases), j \in 1..Len(t_services) :
          /\ ForwardOf(t_use_cases[i], t_services[j]) # {}
          /\ BackwardOf(t_services[j], t_use_cases[i].id) = {}
    /\ \E i \in 1..Len(t_use_cases), j \in 1..Len(t_services) :
          /\ BackwardOf(t_services[j], t_use_cases[i].id) # {}
          /\ ForwardOf(t_use_cases[i], t_services[j]) = {}

\* C26: every entry of every services_used is reported in missing_services
\* or is resolved to a service by the forward pass, and never both.
C26_MissingOrResolved ==
    TraceValidated =>
        \A i \in 1..Len(t_use_cases) : \A ref \in Range(t_use_cases[i].services_used) :
            (MissingOf(t_use_cases[i], ref) # {})
                <=> (ResolveService(t_services, ref) = NoService)

\* C26 witness: one use case has a missing reference and a reference that
\* is resolved by name only
C26_Witness ==
    /\ TraceValidated
    /\ \E i \in 1..Len(t_use_cases) : \E r1, r2 \in Range(t_use_cases[i].services_used) :
          /\ MissingOf(t_use_cases[i], r1) # {}
          /\ ServiceById(t_services, r2) = NoService
          /\ ResolveService(t_services, r2) # NoService
          /\ MissingOf(t_use_cases[i], r2) = {}

\* the forward records that carry the two ids
ForwardNaming(uc_id, service_id) ==
    { k \in ForwardRecords :
        /\ t_issues.bidirectional_mismatches[k].uc = uc_id
        /\ t_issues.bidirectional_mismatches[k].service = service_id }

\* C27: whenever a use case lists the id or the name of a service and the
\* service does not list the id of the use case, a forward mismatch with the
\* id of the use case and the id of the service is in the result.
C27_LinkedByIdOrName ==
    TraceValidated =>
        \A i \in 1..Len(t_use_cases), j \in 1..Len(t_services) :
            ( /\ Lists(t_use_cases[i], t_services[j])
              /\ t_use_cases[i].id \notin Range(t_services[j].used_by) )
            => ForwardNaming(t_use_cases[i].id, t_services[j].id) # {}

\* C27 on inputs in which no two services share an id and no id of a
\* service is the name of another service
C27_LinkedWithDistinctIds ==
    (\A j, m \in 1..Len(t_services) :
        j # m => /\ t_services[j].id # t_services[m].id
                 /\ t_services[j].id # t_services[m].name)
        => C27_LinkedByIdOrName

\* the id is the id of no use case of the input
Dangling(u) == \A i \in 1..Len(t_use_cases) : t_use_cases[i].id # u

\* the services of the input without the dangling entries of their used_by
WithoutDangling ==
    [ j \in 1..Len(t_services) |->
        [ t_services[j] EXCEPT !.used_by = SelectSeq(@, LAMBDA u : ~Dangling(u)) ] ]

\* the file of each element of a list of services
FilesOf(list) == [ k \in 1..Len(list) |-> list[k].file_path ]

\* C30: no record of the result carries a use-case id that is the id of no
\* use case of the input, and the result is the one validate gives for the
\* same services without the dangling entries of their used_by: the same
\* orphans, the same unjustified use cases, the same missing services and the
\* same mismatches.
C30_DanglingUsedByIgnored ==
    TraceValidated =>
        LET clean == TraceabilityValidate(t_use_cases, WithoutDangling)
        IN  /\ \A k \in 1..Len(t_issues.bidirectional_mismatches) :
                  ~Dangling(t_issues.bidirectional_mismatches[k].uc)
            /\ \A k \in 1..Len(t_issues.missing_services) :
                  ~Dangling(t_issues.missing_services[k].uc)
            /\ FilesOf(clean.orphan_services) = FilesOf(t_issues.orphan_services)
            /\ clean.unjustified_serviceless_ucs = t_issues.unjustified_serviceless_ucs
            /\ clean.missing_services = t_issues.missing_services
            /\ clean.bidirectional_mismatches = t_issues.bidirectional_mismatches

\* C30 witness: one service lists an id that is the id of no use case,
\* another entry of a used_by gives a backward mismatch
C30_Witness ==
    /\ TraceValidated
    /\ \E j \in 1..Len(t_services) : \E u \in Range(t_services[j].used_by) : Dangling(u)
    /\ BackwardRecords # {}
    /\ ForwardRecords # {}


(***************************************************************************)
(* Several features for one use case, and declared files, under SpecAlign. *)
(***************************************************************************)
\* the positions of the features that refer to the use case
FeaturesOf(uc) ==
    { j \in 1..Len(bdd_features) : bdd_features[j].uc_reference = uc.uc_id }

\* the last of them in the order of the feature dict
LastFeatureOf(uc) ==
    bdd_features[CHOOSE j \in FeaturesOf(uc) : \A l \in FeaturesOf(uc) : l <= j]

\* C28 as stated: a use case has at most one count_mismatch issue, and it has
\* one whenever some feature that refers to it has another number of
\* scenarios than the use case has criteria, wherever that feature stands in
\* the iteration.
C28_EveryFeatureCompared ==
    AlignValidated =>
        \A i \in 1..Len(use_cases) :
            /\ Cardinality(IssuesOf("count_mismatch", use_cases[i].uc_id)) <= 1
            /\ (\E j \in FeaturesOf(use_cases[i]) :
                    Len(bdd_features[j].scenarios) # Len(use_cases[i].acceptance_criteria))
                  => IssuesOf("count_mismatch", use_cases[i].uc_id) # {}

\* C28, amended: a use case has at most one count_mismatch issue; it has one
\* exactly when the last feature that refers to it has another number of
\* scenarios than the use case has criteria, and the issue names that feature.
C28_LastFeatureCompared ==
    AlignValidated =>
        \A i \in 1..Len(use_cases) :
            /\ Cardinality(IssuesOf("count_mismatch", use_cases[i].uc_id)) <= 1
            /\ FeaturesOf(use_cases[i]) = {}
                  => IssuesOf("count_mismatch", use_cases[i].uc_id) = {}
            /\ FeaturesOf(use_cases[i]) # {}
                  => /\ (IssuesOf("count_mismatch", use_cases[i].uc_id) # {})
                            <=> ( Len(LastFeatureOf(use_cases[i]).scenarios)
                                     # Len(use_cases[i].acceptance_criteria) )
                     /\ \A k \in IssuesOf("count_mismatch", use_cases[i].uc_id) :
                            issues[k].feature_name
                                = LastFeatureOf(use_cases[i]).feature_name

\* C28 witness: two features refer to one use case; the first has the count
\* of the use case, the last has another count and is the one reported
C28_Witness ==
    /\ AlignValidated
    /\ \E i \in 1..Len(use_cases) : \E j, l \in FeaturesOf(use_cases[i]) :
          /\ j < l
          /\ Len(bdd_features[j].scenarios) = Len(use_cases[i].acceptance_criteria)
          /\ Len(bdd_features[l].scenarios) # Len(use_cases[i].acceptance_criteria)
          /\ \E k \in IssuesOf("count_mismatch", use_cases[i].uc_id) :
                issues[k].feature_name = bdd_features[l].feature_name

\* C29: a use case whose declared file has the lower-cased base name of a
\* .feature file that is on the disk has no broken_bdd_ref issue, whatever
\* that file holds.
C29_ExistingFileNotBroken ==
    AlignValidated =>
        \A i \in 1..Len(use_cases) :
            ( /\ use_cases[i].bdd_file_referenced # ""
              /\ \E n \in FeatureFileNames :
                    /\ featureFiles[n] # Absent
                    /\ BaseNameLower(n) = BaseNameLower(use_cases[i].bdd_file_referenced) )
            => IssuesOf("broken_bdd_ref", use_cases[i].uc_id) = {}

\* C29 for the files that are the file of a feature of the repository
C29_ParsedFileNotBroken ==
    AlignValidated =>
        \A i \in 1..Len(use_cases) :
            ( /\ use_cases[i].bdd_file_referenced # ""
              /\ DeclaredFileExists(use_cases[i]) )
            => IssuesOf("broken_bdd_ref", use_cases[i].uc_id) = {}

====
